---------------------------- MODULE Spec2Model ----------------------------
(***************************************************************************)
(* MultyAudioTool: the metadata resolver (AudioInfo.py) and the pipeline   *)
(* orchestrator (AudioProcessor.py, class _Runner) with the helpers of     *)
(* Utils.py they call.                                                     *)
(*                                                                         *)
(* One run of AudioProcessor._Runner.run is a sequence of steps of one     *)
(* control thread (pc); the child processes (analyzer, decoder, sample     *)
(* processor, encoder) and the interrupt signal are the environment.  The  *)
(* file system (input file, intermediate raw file, sidecar, per-channel    *)
(* outputs) persists from one run to the next.                             *)
(*                                                                         *)
(* Python values are tagged tuples: <<"None">>, <<"int", n>>,              *)
(* <<"float", n>>, <<"str", s>> and <<"numstr", n>> (a str holding the     *)
(* decimal text of the number n, as str() and f-strings produce it).       *)
(* Environment assumptions: deleting a file succeeds; the decoder creates  *)
(* its output file when it starts; child processes of a run that ended by  *)
(* an exception are not followed any further.                              *)
(*                                                                         *)
(* prepare_audio_info builds AudioInfo with the keywords mediainfo_launch  *)
(* and eac3to_launch and reads its audio_info; the class in AudioInfo.py   *)
(* takes (parsers, parser_priority) and offers as_dict().  The two are     *)
(* joined the way AudioInfo.main() sets the class up: both analyzers, the  *)
(* priority table of main(), and as_dict() as the record.                  *)
(***************************************************************************)
EXTENDS Integers, Sequences, FiniteSets, TLC

\* ------------------------------------------------------------------------
\* Bounds of the model
\* ------------------------------------------------------------------------
MaxExitCode == 2      \* child processes exit with a code in 0..MaxExitCode
MaxSeconds == 2       \* progress lines report 1..MaxSeconds seconds

\* ------------------------------------------------------------------------
\* Python values
\* ------------------------------------------------------------------------
PyNone == <<"None">>
PyInt(n) == <<"int", n>>
PyFloat(n) == <<"float", n>>
PyStr(s) == <<"str", s>>
PyNumStr(n) == <<"numstr", n>>
Missing == <<"missing">>          \* dict.get on a key that is not there

IsNone(v) == v[1] = "None"
IsNum(v) == v[1] \in {"int", "float"}
IsText(v) == v[1] \in {"str", "numstr"}
\* Python truthiness of a value
Truthy(v) ==
    CASE v[1] = "None" -> FALSE
      [] v[1] \in {"int", "float"} -> v[2] # 0
      [] v[1] = "str" -> v[2] # ""
      [] OTHER -> TRUE

\* class AudioFormat
AC3 == "AC3"
EAC3 == "EAC3"
TRUEHD == "THD"
DTS == "DTS"
AAC == "AAC"
WAV == "WAV"
W64 == "W64"

\* class AudioInfo.Parser
MEDIAINFO == "mediainfo"
EAC3TO == "eac3to"

\* ------------------------------------------------------------------------
\* Utils.Format
\* ------------------------------------------------------------------------
\* to_str: None stays None, anything else becomes its str() text.
ToStr(v) ==
    CASE v[1] = "None" -> PyNone
      [] v[1] \in {"int", "float"} -> PyNumStr(v[2])
      [] OTHER -> v

\* to_float: None stays None; text that float() rejects gives None; the
\* empty text and a zero give the int 0; any other number gives a float.
ToFloat(v) ==
    LET s == ToStr(v) IN
    CASE s[1] = "None" -> PyNone
      [] s[1] = "numstr" -> IF s[2] # 0 THEN PyFloat(s[2]) ELSE PyInt(0)
      [] s[1] = "str" /\ s[2] = "" -> PyInt(0)
      [] OTHER -> PyNone

\* to_int: int(float(text)); the empty text and non-numeric text give None.
ToInt(v) ==
    LET s == ToStr(v) IN
    CASE s[1] = "numstr" -> PyInt(s[2])
      [] OTHER -> PyNone

\* to_frequency.  The result is <<"ok", value>> or <<"raise", exception>>:
\* None reaches re.search(pattern, None) and raises TypeError; a value that
\* to_float turns into the int 0 reaches (0).is_integer(), which int has
\* only from Python 3.12 on (AttributeError before).  Text that float()
\* rejects goes through the regular expression: <<"khz", n>> is the text
\* "<n>kHz" (first alternative, n of one to three digits), <<"hz", n>> the
\* text "<n>Hz" or "<n> hz" (second alternative, n of four to six digits),
\* <<"dk", n>> the text "<n/10>k" with one decimal ("44.1k" is <<"dk", 441>>;
\* first alternative, int(float(khz) * 1000)); any other text matches
\* neither and gives None.
OnlyTwoRates(n) == IF n \in {44100, 48000} THEN PyInt(n) ELSE PyNone

ToFrequency(v) ==
    LET f == ToFloat(v) IN
    CASE f[1] = "float" -> <<"ok", OnlyTwoRates(f[2])>>
      [] f[1] = "int" -> <<"raise", "AttributeError">>
      [] v[1] = "None" -> <<"raise", "TypeError">>
      [] v[1] = "khz" /\ v[2] \in 0..999 -> <<"ok", OnlyTwoRates(v[2] * 1000)>>
      [] v[1] = "hz" /\ v[2] \in 1000..999999 -> <<"ok", OnlyTwoRates(v[2])>>
      [] v[1] = "dk" /\ v[2] \in 0..9999 -> <<"ok", OnlyTwoRates(v[2] * 100)>>
      [] OTHER -> <<"ok", PyNone>>

\* to_human_time formats hh, mm, ss with the format code 02d: None gives the
\* text 'None', an int is formatted, a float raises ValueError.
ToHumanTimeRaises(seconds) == seconds[1] = "float"

\* update_progress_bar: elapsed_sec = time.time() - start_time is a float and
\* is handed to to_human_time before anything is written.
UpdateProgressBarRaises == ToHumanTimeRaises(PyFloat(0))

\* ------------------------------------------------------------------------
\* AudioInfo: format classification and analyzer selection
\* ------------------------------------------------------------------------
StartsWith(header, magic) ==
    Len(header) >= Len(magic) /\ SubSeq(header, 1, Len(magic)) = magic

RIFF == <<82, 73, 70, 70>>
WAVE == <<87, 65, 86, 69>>
w64_guid == <<1, 183, 68, 14, 182, 125, 17, 209, 161, 192, 0, 192, 79, 195, 93, 224>>

\* A faulty classifier that takes every RIFF file for WAV.
DetectMagicBytes_AnyRiff(header) ==
    IF StartsWith(header, <<11, 119>>) THEN PyStr(AC3)
    ELSE IF StartsWith(header, <<248, 114, 111, 186>>) THEN PyStr(TRUEHD)
    ELSE IF StartsWith(header, <<127, 254, 128, 1>>) THEN PyStr(DTS)
    ELSE IF StartsWith(header, <<255, 241>>) \/ StartsWith(header, <<255, 249>>)
         THEN PyStr(AAC)
    ELSE IF StartsWith(header, RIFF) THEN PyStr(WAV)
    ELSE IF StartsWith(header, w64_guid) THEN PyStr(W64)
    ELSE PyNone

\* _detect_magic_bytes on the bytes read from the file (at most 32).
DetectMagicBytes(header) ==
    IF StartsWith(header, <<11, 119>>) THEN PyStr(AC3)
    ELSE IF StartsWith(header, <<248, 114, 111, 186>>) THEN PyStr(TRUEHD)
    ELSE IF StartsWith(header, <<127, 254, 128, 1>>) THEN PyStr(DTS)
    ELSE IF StartsWith(header, <<255, 241>>) \/ StartsWith(header, <<255, 249>>)
         THEN PyStr(AAC)
    ELSE IF Len(header) >= 12 /\ SubSeq(header, 1, 4) = RIFF
            /\ SubSeq(header, 9, 12) = WAVE THEN PyStr(WAV)
    ELSE IF StartsWith(header, w64_guid) THEN PyStr(W64)
    ELSE PyNone

\* The analyzers bound to the resolver: the orchestrator hands it the
\* mediainfo and the eac3to executables.
Parsers == {MEDIAINFO, EAC3TO}

\* parser_priority: the per-format ordered analyzer lists.
ParserPriority(fmt) ==
    CASE fmt = TRUEHD -> <<EAC3TO>>
      [] fmt = EAC3 -> <<EAC3TO, MEDIAINFO, EAC3TO>>
      [] fmt = AC3 -> <<MEDIAINFO, EAC3TO>>
      [] fmt = DTS -> <<EAC3TO>>
      [] fmt = WAV -> <<MEDIAINFO>>
      [] OTHER -> <<>>

\* A faulty selection that takes the last usable entry of the list.
SelectParser_Last(fmt, exeOk) ==
    LET list == ParserPriority(fmt)
        ok == {i \in 1..Len(list) : list[i] \in Parsers /\ list[i] \in exeOk}
    IN IF ok = {} THEN PyNone
       ELSE PyStr(list[CHOOSE i \in ok : \A j \in ok : i >= j])

\* The next(...) of parse: the first entry of the list that is configured
\* and whose executable passes is_executable_exists (exeOk), or None.
SelectParser(fmt, exeOk) ==
    LET list == ParserPriority(fmt)
        ok == {i \in 1..Len(list) : list[i] \in Parsers /\ list[i] \in exeOk}
    IN IF ok = {} THEN PyNone
       ELSE PyStr(list[CHOOSE i \in ok : \A j \in ok : i <= j])

\* _normalize_audio_format: table lookup, the default when not in the table.
FormatTable ==
    [s \in {"AC-3", "E-AC-3", "MLP FBA", "PCM", "AC3", "E-AC3",
            "TrueHD (Atmos)", "WAV", "AAC", "EAC3", "THD"} |->
        CASE s \in {"AC-3", "AC3"} -> AC3
          [] s \in {"E-AC-3", "E-AC3", "EAC3"} -> EAC3
          [] s \in {"MLP FBA", "TrueHD (Atmos)", "THD"} -> TRUEHD
          [] s \in {"PCM", "WAV"} -> WAV
          [] OTHER -> AAC]

\* A faulty lookup that gives None, not the default, for a name that is
\* not in the table.
NormalizeAudioFormat_NoDefault(fmt, default) ==
    IF fmt[1] = "str" /\ fmt[2] \in DOMAIN FormatTable
    THEN PyStr(FormatTable[fmt[2]]) ELSE PyNone

NormalizeAudioFormat(fmt, default) ==
    IF fmt[1] = "str" /\ fmt[2] \in DOMAIN FormatTable
    THEN PyStr(FormatTable[fmt[2]]) ELSE default

\* The fields of a new AudioInfo object (__init__).
NewAudioInfo ==
    [format |-> PyNone, duration |-> PyNone, channels |-> PyNone,
     bitrate |-> PyNone, freq |-> PyNone, dialnorm |-> PyNone,
     parser_used |-> PyNone]

\* The channels setter.
CanonChannels(value) ==
    LET v == ToStr(value) IN
    IF v = PyNumStr(6) THEN PyStr("5.1")
    ELSE IF v = PyNumStr(8) THEN PyStr("7.1") ELSE v

\* dict.get(key, default) on a value that may be Missing.
GetOr(value, default) == IF value = Missing THEN default ELSE value

\* ------------------------------------------------------------------------
\* AudioInfo: the two analyzers' output parsers
\* ------------------------------------------------------------------------
\* int(x / 1000) truncates toward zero.
TruncDiv1000(n) == IF n >= 0 THEN n \div 1000 ELSE -((-n) \div 1000)

\* The body of the track loop of _by_mediainfo for one Audio track: the six
\* setters in source order.  <<"ok", info>> or <<"raise", exception>>:
\* to_int(BitRate) = None makes None / 1000 a TypeError, and the freq setter
\* raises what to_frequency raises; neither is caught by _by_mediainfo.
MediainfoTrack(info, track) ==
    LET br == ToInt(GetOr(track.BitRate, PyInt(0)))
        fr == ToFrequency(GetOr(track.SamplingRate, PyNone))
    IN IF br = PyNone THEN <<"raise", "TypeError">>
       ELSE IF fr[1] = "raise" THEN fr
       ELSE <<"ok",
              [info EXCEPT
                 !.format = NormalizeAudioFormat(
                                ToStr(GetOr(track.Format, info.format)), info.format),
                 !.duration = ToFloat(GetOr(track.Duration, PyInt(0))),
                 !.bitrate = ToInt(PyInt(TruncDiv1000(br[2]))),
                 !.channels = CanonChannels(GetOr(track.Channels, PyNone)),
                 !.freq = fr[2],
                 !.dialnorm = ToInt(GetOr(track.dialnorm, PyNone))]>>

\* The for loop of _by_mediainfo over media.track: every track whose @type
\* is Audio is applied, in order, to the same object.
RECURSIVE MediainfoTracks(_, _)
MediainfoTracks(info, tracks) ==
    IF tracks = <<>> THEN <<"ok", info>>
    ELSE IF Head(tracks).type # PyStr("Audio")
         THEN MediainfoTracks(info, Tail(tracks))
         ELSE LET r == MediainfoTrack(info, Head(tracks)) IN
              IF r[1] = "raise" THEN r ELSE MediainfoTracks(r[2], Tail(tracks))

\* _by_mediainfo on the analyzer's outcome: "error" is a non-zero exit
\* (CalledProcessError) or output that is not JSON (JSONDecodeError), both
\* swallowed ("exit" and "notjson" name the two apart); "jsonlist" is a
\* JSON document that is a list, on which data.get raises AttributeError,
\* which is not in the except clause; "json" carries the track list.
ByMediainfo(info, out) ==
    IF out.kind \in {"error", "exit", "notjson"} THEN <<"ok", info>>
    ELSE IF out.kind = "jsonlist" THEN <<"raise", "AttributeError">>
    ELSE MediainfoTracks(info, out.tracks)

\* Utils.Format.to_seconds is called by _by_eac3to and defined nowhere in
\* the sources at hand: an H:MM:SS text <<"hms", n>> is n seconds, absent
\* stays absent.
ToSeconds(v) == IF v[1] = "hms" THEN PyInt(v[2]) ELSE PyNone

\* _by_eac3to on the analyzer's outcome: "error" is a non-zero exit
\* (swallowed), "nomatch" text the pattern does not match, "match" carries
\* the named groups (None for an optional group that did not take part).
ByEac3to(info, out) ==
    IF out.kind # "match" THEN <<"ok", info>>
    ELSE LET fr == ToFrequency(out.freq) IN
         IF fr[1] = "raise" THEN fr
         ELSE <<"ok",
                [info EXCEPT
                   !.format = NormalizeAudioFormat(ToStr(out.format), info.format),
                   !.channels = CanonChannels(out.channels),
                   !.duration = ToFloat(ToSeconds(out.duration)),
                   !.bitrate = ToInt(out.bitrate),
                   !.freq = fr[2],
                   !.dialnorm = ToInt(out.dialnorm)]>>

\* as_dict
AsDict(info) ==
    [k \in {"format", "duration", "channels", "bitrate", "freq", "dialnorm",
            "parser_used"} |-> info[k]]

\* ------------------------------------------------------------------------
\* Utils.IO: the sidecar file
\* ------------------------------------------------------------------------
\* The f-string of put_params_to_file: '' for None, str(value) otherwise.
ValueText(v) == IF v = PyNone THEN PyStr("") ELSE ToStr(v)

\* put_params_to_file: the text the file holds afterwards, key by key.
PutParamsToFile(params) == [k \in DOMAIN params |-> ValueText(params[k])]

\* A faulty read that never finds data in the file.
GetParamsFromFile_Nothing(file) == {}

\* get_params_from_file: file is {} (no such file) or {content}; the result
\* is {} for None or {dict}.  Values are the texts as written.
GetParamsFromFile(file) == file

\* ------------------------------------------------------------------------
\* AudioProcessor: state
\* ------------------------------------------------------------------------
VARIABLES
    input_file,          \* {} (no such file) or {the file's first bytes}
    temp_raw_file,       \* TRUE iff the intermediate raw file exists
    temp_raw_info_file,  \* the sidecar: {} or {key -> text}
    out_files,           \* the per-channel output files that exist
    channels_key,        \* the layout the AudioProcessor was built with
    exeOk,               \* analyzers passing is_executable_exists in this run
    req,                 \* the keyword arguments of run
    pc,                  \* where the control thread of run is
    audio_info,          \* _Runner.audio_info
    parser_used,         \* the analyzer parse has chosen (AudioInfo.parser_used)
    gst, sox, ffmpeg,    \* child processes: [st, rc]
    seconds_passed,      \* the local seconds_passed of the running stage
    output_files,        \* _Runner._output_files
    sox_cmd, ffmpeg_cmd, \* the command lines built by run_sox_ffmpeg
    result,              \* how run ended: [how, code, exc]
    analyzer_runs,       \* history: analyzer processes started in this run
    info_source,         \* history: "sidecar" or "parse", where this run took its record
    interrupted,         \* history: the stage a KeyboardInterrupt arrived in
    start_raw,           \* history: temp_raw_file when this run started
    start_info,          \* history: temp_raw_info_file when this run started
    prev_run,            \* history: the stage the previous run failed in, or ""
    call                 \* one call of a helper on its own: [fn, arg, ret, done]

vars == <<input_file, temp_raw_file, temp_raw_info_file, out_files,
          channels_key, exeOk, req, pc, audio_info, parser_used, gst, sox,
          ffmpeg, seconds_passed, output_files, sox_cmd, ffmpeg_cmd, result,
          analyzer_runs, info_source, interrupted, start_raw, start_info,
          prev_run, call>>

\* AudioProcessor.__init__
GST_DELAY_THD == 32
GST_DELAY_AC3 == -224

\* InData.CHANNELS
CHANNELS ==
    [k \in {"2.0", "3.1", "5.1", "7.1", "9.1", "9.1.6"} |->
       CASE k = "2.0" -> [id |-> 0, names |-> <<"L", "R">>]
         [] k = "3.1" -> [id |-> 3, names |-> <<"L", "R", "C", "LFE">>]
         [] k = "5.1" -> [id |-> 7, names |-> <<"L", "R", "C", "LFE", "Ls", "Rs">>]
         [] k = "7.1" -> [id |-> 11, names |->
                <<"L", "R", "C", "LFE", "Ls", "Rs", "Lrs", "Rrs">>]
         [] k = "9.1" -> [id |-> 12, names |->
                <<"L", "R", "C", "LFE", "Ls", "Rs", "Lrs", "Rrs", "Lw", "Rw">>]
         [] OTHER -> [id |-> 20, names |->
                <<"L", "R", "C", "LFE", "Ls", "Rs", "Lrs", "Rrs", "Lw", "Rw",
                  "Ltf", "Rtf", "Ltm", "Rtm", "Ltr", "Rtr">>]]

channels_layout == CHANNELS[channels_key].names
channels_count == Len(channels_layout)

\* _Runner.__init__: the audio_info dict and the child-process slots.
EmptyAudioInfo ==
    [k \in {"format", "duration", "channels", "freq", "dialnorm", "parser_used"}
       |-> PyNone]
NoProc == [st |-> "none", rc |-> 0, cmd |-> ""]
NoResult == [how |-> "running", code |-> 0, exc |-> ""]
Returned(code) == [how |-> "return", code |-> code, exc |-> ""]
Raised(exc) == [how |-> "raise", code |-> 0, exc |-> exc]

\* get_audio_info(key)
GetAudioInfo(ai, key) == IF key \in DOMAIN ai THEN ai[key] ELSE PyNone

\* A faulty input_format that falls back to AC3 when the record has no
\* format.
InputFormat_DefaultsToAC3(ai) ==
    LET fmt == GetAudioInfo(ai, "format") IN
    IF fmt = PyStr(TRUEHD) THEN PyStr(TRUEHD) ELSE PyStr(AC3)

\* The input_format property.  The format tags of this model are upper
\* case already, so upper() leaves them as they are.
InputFormat(ai) ==
    LET fmt == GetAudioInfo(ai, "format") IN
    IF fmt = PyStr(TRUEHD) THEN PyStr(TRUEHD)
    ELSE IF fmt = PyStr(AC3) THEN PyStr(AC3) ELSE PyNone

\* A faulty get_delay_fix with the two constants the wrong way round.
GetDelayFix_Swapped(input_format) ==
    IF input_format = PyStr(TRUEHD) THEN GST_DELAY_AC3 ELSE GST_DELAY_THD

\* get_delay_fix
GetDelayFix(input_format) ==
    IF input_format = PyStr(TRUEHD) THEN GST_DELAY_THD ELSE GST_DELAY_AC3

\* A faulty delay property that takes the AC3 offset for every format.
DelayProp_IgnoresFormat(r, ai) == ToInt(r.delay)[2] - GST_DELAY_AC3

\* The delay property: _delay = to_int(delay) minus the decoder's offset.
DelayProp(r, ai) == ToInt(r.delay)[2] - GetDelayFix(InputFormat(ai))

\* A faulty duration property that takes the longer of the two.
DurationProp_Longer(r, ai) ==
    LET parsed == GetAudioInfo(ai, "duration")
        stored == ToFloat(r.duration)
    IN IF Truthy(stored) /\ (~Truthy(parsed) \/ stored[2] > parsed[2])
       THEN stored ELSE parsed

\* The duration property: _duration = to_float(duration) when it is truthy
\* and the parsed duration is falsy or larger, the parsed duration otherwise.
DurationProp(r, ai) ==
    LET parsed == GetAudioInfo(ai, "duration")
        stored == ToFloat(r.duration)
    IN IF Truthy(stored) /\ (~Truthy(parsed) \/ stored[2] < parsed[2])
       THEN stored ELSE parsed

\* A faulty volume property that takes a requested 0 for 'auto'.
VolumeProp_ZeroIsAuto(r, ai) ==
    LET dialnorm == GetAudioInfo(ai, "dialnorm")
        volume == ToFloat(r.volume)
    IN IF ~Truthy(volume)
       THEN (IF dialnorm = PyNone THEN PyInt(0) ELSE PyInt(31 + dialnorm[2]))
       ELSE volume

\* The volume property: _volume = to_float(volume); None means 'auto'.
VolumeProp(r, ai) ==
    LET dialnorm == GetAudioInfo(ai, "dialnorm")
        volume == ToFloat(r.volume)
    IN IF volume = PyNone
       THEN (IF dialnorm = PyNone THEN PyInt(0) ELSE PyInt(31 + dialnorm[2]))
       ELSE volume

\* ------------------------------------------------------------------------
\* AudioProcessor: command builders
\* ------------------------------------------------------------------------
Range(seq) == {seq[i] : i \in 1..Len(seq)}

\* _build_sox_command: output type and encoding, pad/trim, gain.
BuildSoxCommand(bits, delay, volume) ==
    [out_type |-> IF bits = 32 THEN "f32" ELSE "s24",
     out_enc |-> IF bits = 32 THEN "floating-point" ELSE "signed-integer",
     effect |-> IF delay > 0 THEN <<"pad", delay>>
                ELSE IF delay < 0 THEN <<"trim", -delay>> ELSE <<>>,
     gain |-> IF Truthy(volume) THEN <<volume[2]>> ELSE <<>>]

\* The selected_channels list of _build_ffmpeg_command: (cid, cname) pairs
\* of the layout, cid counted from 0, kept when the filter is empty or
\* holds the name.
SelectedChannels(layout, channels_filter) ==
    SelectSeq([i \in 1..Len(layout) |-> <<i - 1, layout[i]>>],
              LAMBDA p : channels_filter = <<>> \/ p[2] \in Range(channels_filter))

\* str(n).zfill(2) as the sequence of its decimal digits.
RECURSIVE Digits(_)
Digits(n) == IF n < 10 THEN <<n>> ELSE Digits(n \div 10) \o <<n % 10>>
ZFill2(n) == IF n < 10 THEN <<0, n>> ELSE Digits(n)

\* A faulty numbering that uses the 0-based index of enumerate as it is.
OutputFile_ZeroBased(cid, cname, no_numbers) ==
    IF no_numbers THEN <<cname>> ELSE <<ZFill2(cid), cname>>

\* The output file of one selected channel: <<digits of NN, name>> stands
\* for <base>.<NN>_<name>.wav and <<name>> for <base>.<name>.wav.
OutputFile(cid, cname, no_numbers) ==
    IF no_numbers THEN <<cname>> ELSE <<ZFill2(cid + 1), cname>>

OutputFiles(layout, no_numbers, channels_filter) ==
    LET sel == SelectedChannels(layout, channels_filter) IN
    [i \in 1..Len(sel) |-> OutputFile(sel[i][1], sel[i][2], no_numbers)]

\* _build_ffmpeg_command: the empty list when no channel is selected,
\* else input format, optional -t, and one -map/-c:a/output per channel.
BuildFfmpegCommand(layout, bits, no_numbers, duration, channels_filter) ==
    LET sel == SelectedChannels(layout, channels_filter) IN
    IF sel = <<>>
    THEN [empty |-> TRUE, in_fmt |-> "", t |-> <<>>, maps |-> <<>>,
          codec |-> "", outputs |-> <<>>]
    ELSE [empty |-> FALSE,
          in_fmt |-> IF bits = 24 THEN "s24le" ELSE "f32le",
          t |-> IF Truthy(duration) THEN <<duration>> ELSE <<>>,
          maps |-> sel,
          codec |-> IF bits = 24 THEN "pcm_s24le" ELSE "pcm_f32le",
          outputs |-> OutputFiles(layout, no_numbers, channels_filter)]

NoCmd == [empty |-> TRUE]

\* ------------------------------------------------------------------------
\* The inputs the environment chooses from
\* ------------------------------------------------------------------------
InputFiles ==
    {{}, {<<11, 119, 0, 0>>}, {<<248, 114, 111, 186>>}, {<<0, 0>>}}

LayoutKeys == {"2.0", "5.1"}

Requests ==
    [keep_raw : BOOLEAN, no_numbers : {FALSE}, bits : {24},
     delay : {PyInt(0)}, volume : {PyNone, PyInt(0)},
     duration : {PyInt(0), PyInt(1)},
     channels_filter : {<<>>, <<"Ls", "Rs">>}]

\* The defaults of AudioProcessor.run
DefaultRequest ==
    [keep_raw |-> TRUE, no_numbers |-> FALSE, bits |-> 24, delay |-> PyInt(0),
     volume |-> PyInt(0), duration |-> PyInt(0), channels_filter |-> <<>>]

ExitCodes == 0..MaxExitCode

Tracks ==
    [type : {PyStr("Audio"), PyStr("Video")},
     Format : {PyStr("AC-3"), PyStr("E-AC-3"), PyStr("XYZ"), Missing},
     Duration : {Missing, PyNumStr(2)},
     BitRate : {Missing},
     Channels : {PyNumStr(6)},
     SamplingRate : {Missing, PyNumStr(48000)},
     dialnorm : {Missing, PyNumStr(-27)}]

MediainfoOutputs ==
    {[kind |-> "error", tracks |-> <<>>]}
    \cup {[kind |-> "json", tracks |-> <<>>]}
    \cup {[kind |-> "json", tracks |-> <<t>>] : t \in Tracks}

Eac3toOutputs ==
    [kind : {"error", "nomatch"}, format : {PyNone}, channels : {PyNone},
     duration : {PyNone}, bitrate : {PyNone}, freq : {PyNone},
     dialnorm : {PyNone}]
    \cup
    [kind : {"match"},
     format : {PyStr("TrueHD (Atmos)"), PyStr("AC3"), PyStr("E-AC3"), PyStr("DTS")},
     channels : {PyStr("7.1")},
     duration : {PyNone, <<"hms", 2>>},
     bitrate : {PyNone},
     freq : {PyNone, <<"khz", 48>>},
     dialnorm : {PyNone, PyNumStr(-27)}]

\* ------------------------------------------------------------------------
\* Init
\* ------------------------------------------------------------------------
\* No helper is being called on its own.
NoCall == [fn |-> "", arg |-> <<>>, ret |-> <<>>, done |-> FALSE]

\* The state before the first run.
RunInit ==
    /\ input_file = {}
    /\ temp_raw_file = FALSE
    /\ temp_raw_info_file = {}
    /\ out_files = {}
    /\ channels_key \in LayoutKeys
    /\ exeOk = {}
    /\ req = DefaultRequest
    /\ pc = "idle"
    /\ audio_info = EmptyAudioInfo
    /\ parser_used = PyNone
    /\ gst = NoProc /\ sox = NoProc /\ ffmpeg = NoProc
    /\ seconds_passed = PyNone
    /\ output_files = {}
    /\ sox_cmd = NoCmd /\ ffmpeg_cmd = NoCmd
    /\ result = NoResult
    /\ analyzer_runs = 0
    /\ info_source = ""
    /\ interrupted = ""
    /\ start_raw = FALSE
    /\ start_info = {}
    /\ prev_run = ""

Init == RunInit /\ call = NoCall

\* ------------------------------------------------------------------------
\* AudioProcessor._Runner.run, step by step
\* ------------------------------------------------------------------------
\* "self.temp_raw_file.exists" without a call is the bound method object,
\* which is truthy whether or not the file is there.
ExistsAttr(raw) == TRUE

\* The first condition of run.
InputNotFound(inp, raw) == inp = {} /\ ~ExistsAttr(raw)

fsVars == <<input_file, temp_raw_file, temp_raw_info_file, out_files>>
procVars == <<gst, sox, ffmpeg, seconds_passed>>
cmdVars == <<output_files, sox_cmd, ffmpeg_cmd>>
histVars == <<analyzer_runs, info_source, interrupted, start_raw, start_info,
              prev_run>>
cfgVars == <<channels_key, exeOk, req, call>>

\* A call of AudioProcessor.run: a new _Runner, then the first lines of
\* _Runner.run.
StartRun(inp, exe, r) ==
    /\ pc = "idle"
    /\ input_file' = inp
    /\ exeOk' = exe
    /\ req' = r
    /\ audio_info' = EmptyAudioInfo
    /\ parser_used' = PyNone
    /\ gst' = NoProc /\ sox' = NoProc /\ ffmpeg' = NoProc
    /\ seconds_passed' = PyNone
    /\ output_files' = {}
    /\ sox_cmd' = NoCmd /\ ffmpeg_cmd' = NoCmd
    /\ analyzer_runs' = 0
    /\ info_source' = ""
    /\ interrupted' = ""
    /\ start_raw' = temp_raw_file
    /\ start_info' = temp_raw_info_file
    /\ IF InputNotFound(inp, temp_raw_file)
       THEN pc' = "done" /\ result' = Returned(1)
       ELSE pc' = "prepare" /\ result' = NoResult
    /\ UNCHANGED <<temp_raw_file, temp_raw_info_file, out_files, channels_key,
                   prev_run, call>>

\* AudioProcessor.run hands the code of _Runner.run to its caller (or the
\* exception passes through it); the _Runner object is not kept.  prev_run
\* records whether this run failed, and whether after run_sox_ffmpeg had
\* started the sample processor.
EndRun ==
    /\ pc = "done"
    /\ pc' = "idle"
    /\ exeOk' = {}
    /\ req' = DefaultRequest
    /\ audio_info' = EmptyAudioInfo
    /\ parser_used' = PyNone
    /\ gst' = NoProc /\ sox' = NoProc /\ ffmpeg' = NoProc
    /\ seconds_passed' = PyNone
    /\ output_files' = {}
    /\ sox_cmd' = NoCmd /\ ffmpeg_cmd' = NoCmd
    /\ result' = NoResult
    /\ analyzer_runs' = 0
    /\ info_source' = ""
    /\ interrupted' = ""
    /\ start_raw' = FALSE
    /\ start_info' = {}
    /\ prev_run' = IF result = Returned(0) THEN ""
                   ELSE IF sox # NoProc THEN "transcode"
                   ELSE "earlier"
    /\ UNCHANGED <<fsVars, channels_key, call>>

\* _normalize_audio_field: <<"ok", value>> or <<"raise", exception>>.
NormalizeAudioField(k, v) ==
    IF k \in {"format", "channels", "parser_used"} THEN <<"ok", ToStr(v)>>
    ELSE IF k = "duration" THEN <<"ok", ToFloat(v)>>
    ELSE IF k = "freq" THEN ToFrequency(v)
    ELSE <<"ok", IF v # PyNone THEN ToInt(v) ELSE PyNone>>

\* audio_info.update({k: _normalize_audio_field(k, v) ...}) when no field
\* raises.
UpdatedAudioInfo(old, ai) ==
    [k \in DOMAIN old \cup DOMAIN ai |->
       IF k \in DOMAIN ai THEN NormalizeAudioField(k, ai[k])[2] ELSE old[k]]

\* The rest of prepare_audio_info once ai is known: normalize and update,
\* rewrite the sidecar, print the two summary lines (the second formats the
\* duration with to_human_time).
FinishPrepare(ai) ==
    LET bad == {k \in DOMAIN ai : NormalizeAudioField(k, ai[k])[1] = "raise"}
        new == UpdatedAudioInfo(audio_info, ai)
    IN IF bad # {}
       THEN /\ pc' = "done"
            /\ result' = Raised(NormalizeAudioField("freq", ai["freq"])[2])
            /\ UNCHANGED <<audio_info, temp_raw_info_file>>
       ELSE /\ audio_info' = new
            /\ temp_raw_info_file' = {PutParamsToFile(new)}
            /\ IF ToHumanTimeRaises(GetAudioInfo(new, "duration"))
               THEN pc' = "done" /\ result' = Raised("ValueError")
               ELSE pc' = "gst" /\ UNCHANGED result

\* prepare_audio_info up to the analyzer: the sidecar when it holds data,
\* else AudioInfo.parse, which either ends without an analyzer (no file, no
\* known magic, no usable analyzer) or starts one.
PrepareAudioInfo ==
    /\ pc = "prepare"
    /\ LET cached == GetParamsFromFile(temp_raw_info_file)
           fmt == IF input_file = {} THEN PyNone
                  ELSE DetectMagicBytes(CHOOSE h \in input_file : TRUE)
           p == IF fmt = PyNone THEN PyNone ELSE SelectParser(fmt[2], exeOk)
       IN IF cached # {}
          THEN /\ FinishPrepare(CHOOSE d \in cached : TRUE)
               /\ info_source' = "sidecar"
               /\ UNCHANGED <<parser_used, analyzer_runs>>
          ELSE IF p = PyNone
          THEN /\ FinishPrepare(AsDict(NewAudioInfo))
               /\ info_source' = "parse"
               /\ UNCHANGED <<parser_used, analyzer_runs>>
          ELSE /\ parser_used' = p
               /\ info_source' = "parse"
               /\ analyzer_runs' = analyzer_runs + 1
               /\ pc' = "analyzing"
               /\ UNCHANGED <<audio_info, temp_raw_info_file, result>>
    /\ UNCHANGED <<input_file, temp_raw_file, out_files, cfgVars, procVars,
                   cmdVars, interrupted, start_raw, start_info, prev_run>>

\* The AudioInfo object while its analyzer runs.
ParsingInfo == [NewAudioInfo EXCEPT !.parser_used = ToStr(parser_used)]

\* The analyzer process ends and its output is parsed; parse returns and
\* prepare_audio_info goes on with as_dict of the object.
AnalyzerReturns(out) ==
    /\ pc = "analyzing"
    /\ LET r == IF parser_used = PyStr(MEDIAINFO)
                THEN ByMediainfo(ParsingInfo, out) ELSE ByEac3to(ParsingInfo, out)
       IN IF r[1] = "raise"
          THEN /\ pc' = "done" /\ result' = Raised(r[2])
               /\ UNCHANGED <<audio_info, temp_raw_info_file>>
          ELSE FinishPrepare(AsDict(r[2]))
    /\ UNCHANGED <<input_file, temp_raw_file, out_files, cfgVars, procVars,
                   cmdVars, histVars, parser_used>>

\* KeyboardInterrupt while the analyzer runs: both _by_ methods list it in
\* their except clause and pass.
AnalyzerInterrupt ==
    /\ pc = "analyzing"
    /\ interrupted' = "analyzer"
    /\ FinishPrepare(AsDict(ParsingInfo))
    /\ UNCHANGED <<input_file, temp_raw_file, out_files, cfgVars, procVars,
                   cmdVars, analyzer_runs, info_source, start_raw, start_info, prev_run,
                   parser_used>>

\* ------------------------------------------------------------------------
\* run_gstreamer
\* ------------------------------------------------------------------------
\* A faulty deletion that removes the raw file and leaves the sidecar.
DeleteRawFiles_LeavesSidecar ==
    temp_raw_file' = FALSE /\ UNCHANGED temp_raw_info_file

\* Utils.IO.delete_files([temp_raw_file, temp_raw_info_file])
DeleteRawFiles == temp_raw_file' = FALSE /\ temp_raw_info_file' = {}

\* The start of run_gstreamer: the resume branch when the raw file exists
\* (it draws the progress bar at 100% and returns 0), else the decoder is
\* started with the template of the input format, else ValueError.
RunGstreamer ==
    /\ pc = "gst"
    /\ IF temp_raw_file
       THEN /\ IF UpdateProgressBarRaises
               THEN pc' = "done" /\ result' = Raised("ValueError")
               ELSE pc' = "sox" /\ UNCHANGED result
            /\ UNCHANGED <<gst, temp_raw_file>>
       ELSE IF InputFormat(audio_info) # PyNone
       THEN /\ gst' = [st |-> "running", rc |-> 0,
                       cmd |-> IF InputFormat(audio_info) = PyStr(TRUEHD)
                               THEN "thd" ELSE "ac3"]
            /\ temp_raw_file' = TRUE
            /\ pc' = "decoding"
            /\ UNCHANGED result
       ELSE /\ pc' = "done" /\ result' = Raised("ValueError")
            /\ UNCHANGED <<gst, temp_raw_file>>
    /\ UNCHANGED <<input_file, temp_raw_info_file, out_files, cfgVars,
                   audio_info, parser_used, sox, ffmpeg, seconds_passed,
                   cmdVars, histVars>>

\* The decoder prints a progressreport line: _parse_gstreamer_output_line
\* draws the progress bar and hands back the seconds done.
GstProgressLine(s) ==
    /\ pc = "decoding" /\ gst.st = "running"
    /\ IF UpdateProgressBarRaises
       THEN pc' = "done" /\ result' = Raised("ValueError")
            /\ UNCHANGED seconds_passed
       ELSE seconds_passed' = PyFloat(s) /\ UNCHANGED <<pc, result>>
    /\ UNCHANGED <<fsVars, cfgVars, audio_info, parser_used, gst, sox, ffmpeg,
                   cmdVars, histVars>>

\* The decoder process exits.
GstExits(rc) ==
    /\ pc = "decoding" /\ gst.st = "running"
    /\ gst' = [gst EXCEPT !.st = "exited", !.rc = rc]
    /\ UNCHANGED <<fsVars, cfgVars, pc, audio_info, parser_used, sox, ffmpeg,
                   seconds_passed, cmdVars, result, histVars>>

\* A faulty end of run_gstreamer that stores the duration and does not
\* rewrite the sidecar.
GstFinished_NoRewrite ==
    /\ pc = "decoding" /\ gst.st = "exited"
    /\ IF gst.rc = 0
       THEN /\ audio_info' = [audio_info EXCEPT !["duration"] = seconds_passed]
            /\ pc' = "sox"
            /\ UNCHANGED <<temp_raw_file, temp_raw_info_file, result>>
       ELSE /\ DeleteRawFiles
            /\ pc' = "done" /\ result' = Returned(gst.rc)
            /\ UNCHANGED audio_info
    /\ UNCHANGED <<input_file, out_files, cfgVars, parser_used, procVars,
                   cmdVars, histVars>>

\* After the read loop: exit code 0 stores the seconds done as the duration
\* and rewrites the sidecar; any other code deletes the raw file and the
\* sidecar and is what run_gstreamer and then run return.
GstFinished ==
    /\ pc = "decoding" /\ gst.st = "exited"
    /\ IF gst.rc = 0
       THEN /\ audio_info' = [audio_info EXCEPT !["duration"] = seconds_passed]
            /\ temp_raw_info_file' = {PutParamsToFile(audio_info')}
            /\ pc' = "sox"
            /\ UNCHANGED <<temp_raw_file, result>>
       ELSE /\ DeleteRawFiles
            /\ pc' = "done" /\ result' = Returned(gst.rc)
            /\ UNCHANGED audio_info
    /\ UNCHANGED <<input_file, out_files, cfgVars, parser_used, procVars,
                   cmdVars, histVars>>

\* Utils.Proc.handle_interrupt on one process: terminate and wait when it
\* is still running.
HandleInterrupt(proc) ==
    IF proc.st = "running" THEN [proc EXCEPT !.st = "terminated"] ELSE proc

\* KeyboardInterrupt in the read loop of run_gstreamer: first
\* handle_interrupt(proc) ...
GstInterrupt ==
    /\ pc = "decoding"
    /\ gst' = HandleInterrupt(gst)
    /\ interrupted' = "decode"
    /\ pc' = "gst_interrupted"
    /\ UNCHANGED <<fsVars, cfgVars, audio_info, parser_used, sox, ffmpeg,
                   seconds_passed, cmdVars, result, analyzer_runs, info_source,
                   start_raw, start_info, prev_run>>

\* ... then delete_files and return 1, which run returns.
GstInterruptCleanup ==
    /\ pc = "gst_interrupted"
    /\ DeleteRawFiles
    /\ pc' = "done" /\ result' = Returned(1)
    /\ UNCHANGED <<input_file, out_files, cfgVars, audio_info, parser_used,
                   procVars, cmdVars, histVars>>

\* ------------------------------------------------------------------------
\* run_sox_ffmpeg
\* ------------------------------------------------------------------------
\* Utils.IO.delete_files(self._output_files)
DeleteOutputFiles ==
    out_files' = out_files \ UNION {Range(fs) : fs \in output_files}

\* The start of run_sox_ffmpeg: both command lines are built, the sample
\* processor is started, then the encoder.  Popen of the empty command list
\* raises (IndexError) after the sample processor has been started.
RunSoxFfmpeg ==
    /\ pc = "sox"
    /\ LET scmd == BuildSoxCommand(req.bits, DelayProp(req, audio_info),
                                   VolumeProp(req, audio_info))
           fcmd == BuildFfmpegCommand(channels_layout, req.bits, req.no_numbers,
                       DurationProp(req, audio_info), req.channels_filter)
       IN /\ sox_cmd' = scmd
          /\ ffmpeg_cmd' = fcmd
          /\ output_files' = IF fcmd.empty THEN output_files ELSE {fcmd.outputs}
          /\ sox' = [st |-> "running", rc |-> 0, cmd |-> "sox"]
          /\ IF fcmd.empty
             THEN /\ pc' = "done" /\ result' = Raised("IndexError")
                  /\ UNCHANGED ffmpeg
             ELSE /\ ffmpeg' = [st |-> "running", rc |-> 0, cmd |-> "ffmpeg"]
                  /\ pc' = "transcoding"
                  /\ UNCHANGED result
    /\ seconds_passed' = PyNone
    /\ UNCHANGED <<fsVars, cfgVars, audio_info, parser_used, gst, histVars>>

\* The encoder creates its per-channel output files.
FfmpegWritesOutputs ==
    /\ pc \in {"transcoding", "ffmpeg_interrupted"} /\ ffmpeg.st = "running"
    /\ out_files' = out_files \cup UNION {Range(fs) : fs \in output_files}
    /\ out_files' # out_files
    /\ UNCHANGED <<input_file, temp_raw_file, temp_raw_info_file, cfgVars, pc,
                   audio_info, parser_used, procVars, cmdVars, result, histVars>>

\* The encoder prints a "time=H:M:S.ms" line.  _parse_ffmpeg_output_line
\* draws the progress bar only when the total duration is truthy; without
\* it the line is kept as diagnostic text and nothing else changes.
FfmpegProgressLine(s) ==
    /\ pc = "transcoding" /\ ffmpeg.st = "running"
    /\ Truthy(DurationProp(req, audio_info))
    /\ IF UpdateProgressBarRaises
       THEN pc' = "done" /\ result' = Raised("ValueError")
            /\ UNCHANGED seconds_passed
       ELSE seconds_passed' = PyFloat(s) /\ UNCHANGED <<pc, result>>
    /\ UNCHANGED <<fsVars, cfgVars, audio_info, parser_used, gst, sox, ffmpeg,
                   cmdVars, histVars>>

\* The sample processor exits.
SoxExits(rc) ==
    /\ pc \in {"transcoding", "ffmpeg_interrupted"} /\ sox.st = "running"
    /\ sox' = [sox EXCEPT !.st = "exited", !.rc = rc]
    /\ UNCHANGED <<fsVars, cfgVars, pc, audio_info, parser_used, gst, ffmpeg,
                   seconds_passed, cmdVars, result, histVars>>

\* The encoder exits.
FfmpegExits(rc) ==
    /\ pc \in {"transcoding", "ffmpeg_interrupted"} /\ ffmpeg.st = "running"
    /\ ffmpeg' = [ffmpeg EXCEPT !.st = "exited", !.rc = rc]
    /\ UNCHANGED <<fsVars, cfgVars, pc, audio_info, parser_used, gst, sox,
                   seconds_passed, cmdVars, result, histVars>>

\* The "bug fix in duration log" lines after the read loop: when the last
\* reported time is truthy and below the duration, one more line is built
\* with to_human_time(duration) and parsed like an encoder line.
FinalUpdateRaises(r, ai, seconds) ==
    LET d == DurationProp(r, ai) IN
    /\ Truthy(seconds)
    /\ seconds[2] < d[2]
    /\ (ToHumanTimeRaises(d) \/ UpdateProgressBarRaises)

\* What run_sox_ffmpeg returns once both processes have been waited for:
\* the encoder's exit code.
TranscodeCode(sox_rc, ffmpeg_rc) == ffmpeg_rc

\* A faulty cleanup test that does not look at keep_raw.
CleanupWanted_IgnoresKeepRaw(code, keep_raw) == code = 0

\* The last lines of run: the intermediate files are deleted when the code
\* is 0 and keep_raw is off.
CleanupWanted(code, keep_raw) == code = 0 /\ ~keep_raw

\* After the read loop of run_sox_ffmpeg, and the rest of run.
TranscodeFinished ==
    /\ pc = "transcoding" /\ ffmpeg.st = "exited" /\ sox.st = "exited"
    /\ pc' = "done"
    /\ IF FinalUpdateRaises(req, audio_info, seconds_passed)
       THEN /\ result' = Raised("ValueError")
            /\ UNCHANGED <<out_files, temp_raw_file, temp_raw_info_file>>
       ELSE LET code == TranscodeCode(sox.rc, ffmpeg.rc) IN
            /\ result' = Returned(code)
            /\ IF code = 0 THEN UNCHANGED out_files ELSE DeleteOutputFiles
            /\ IF CleanupWanted(code, req.keep_raw)
               THEN DeleteRawFiles
               ELSE UNCHANGED <<temp_raw_file, temp_raw_info_file>>
    /\ UNCHANGED <<input_file, cfgVars, audio_info, parser_used, procVars,
                   cmdVars, histVars>>

\* KeyboardInterrupt in run_sox_ffmpeg: first delete_files(_output_files) ...
TranscodeInterrupt ==
    /\ pc = "transcoding"
    /\ DeleteOutputFiles
    /\ interrupted' = "transcode"
    /\ pc' = "ffmpeg_interrupted"
    /\ UNCHANGED <<input_file, temp_raw_file, temp_raw_info_file, cfgVars,
                   audio_info, parser_used, procVars, cmdVars, result,
                   analyzer_runs, info_source, start_raw, start_info, prev_run>>

\* ... then handle_interrupt(ffmpeg_proc, sox_proc), whose 1 run returns.
TranscodeInterruptTerminate ==
    /\ pc = "ffmpeg_interrupted"
    /\ ffmpeg' = HandleInterrupt(ffmpeg)
    /\ sox' = HandleInterrupt(sox)
    /\ pc' = "done" /\ result' = Returned(1)
    /\ UNCHANGED <<fsVars, cfgVars, audio_info, parser_used, gst,
                   seconds_passed, cmdVars, histVars>>

\* ------------------------------------------------------------------------
\* Specification
\* ------------------------------------------------------------------------
Next ==
    \/ \E inp \in InputFiles, exe \in SUBSET Parsers, r \in Requests :
          StartRun(inp, exe, r)
    \/ EndRun
    \/ PrepareAudioInfo
    \/ \E out \in IF parser_used = PyStr(MEDIAINFO)
                  THEN MediainfoOutputs ELSE Eac3toOutputs : AnalyzerReturns(out)
    \/ AnalyzerInterrupt
    \/ RunGstreamer
    \/ \E s \in 1..MaxSeconds : GstProgressLine(s)
    \/ \E rc \in ExitCodes : GstExits(rc)
    \/ GstFinished
    \/ GstInterrupt
    \/ GstInterruptCleanup
    \/ RunSoxFfmpeg
    \/ FfmpegWritesOutputs
    \/ \E s \in 1..MaxSeconds : FfmpegProgressLine(s)
    \/ \E rc \in ExitCodes : SoxExits(rc)
    \/ \E rc \in ExitCodes : FfmpegExits(rc)
    \/ TranscodeFinished
    \/ TranscodeInterrupt
    \/ TranscodeInterruptTerminate

Spec == Init /\ [][Next]_vars


\* ------------------------------------------------------------------------
\* Properties
\* ------------------------------------------------------------------------
AnyChildRunning ==
    gst.st = "running" \/ sox.st = "running" \/ ffmpeg.st = "running"

NoChildLaunched == gst.st = "none" /\ sox.st = "none" /\ ffmpeg.st = "none"

\* The per-channel output files planned for this run.
PlannedOutputs == UNION {Range(fs) : fs \in output_files}

\* prepare_audio_info has stored a record and printed its summary.
PrepareEnded ==
    /\ audio_info # EmptyAudioInfo
    /\ ~ToHumanTimeRaises(GetAudioInfo(audio_info, "duration"))

\* C1: whenever run returns, the value it returns is 0 or 1 and no other
\* value.  (Refuted: the decoder's or the encoder's own exit code is what
\* run returns.)
C1_ReturnsOnlyZeroOrOne ==
    (pc = "done" /\ result.how = "return") => result.code \in {0, 1}

\* C2: a run started with the intermediate raw file and the sidecar both in
\* place starts no analyzer and no decoder and reaches the transcode stage:
\* when it is over the sample processor has been started and the record in
\* use is the one read from the sidecar.  (Refuted: the resume branch of
\* run_gstreamer raises before the transcode stage.)
C2_ResumeGoesToTranscode ==
    (pc = "done" /\ start_raw /\ start_info # {})
        => /\ analyzer_runs = 0
           /\ gst.st = "none"
           /\ sox.st # "none"
           /\ audio_info = UpdatedAudioInfo(EmptyAudioInfo,
                                            CHOOSE d \in start_info : TRUE)

C4_TranscodeFailureDeletesOutputs ==
    (/\ pc = "done" /\ result.how = "return" /\ interrupted = ""
     /\ sox.st = "exited" /\ ffmpeg.st = "exited"
     /\ (sox.rc # 0 \/ ffmpeg.rc # 0))
        => /\ result.code # 0
           /\ out_files \cap PlannedOutputs = {}

DeletesAFile ==
    \/ temp_raw_file /\ ~temp_raw_file'
    \/ temp_raw_info_file # {} /\ temp_raw_info_file' = {}
    \/ out_files \ out_files' # {}

\* C6: in the decode and transcode stages no step deletes a file while a
\* child process of the run is still running.  (Refuted: the interrupt
\* handler of run_sox_ffmpeg deletes the output files first and terminates
\* the encoder and the sample processor afterwards.)
C6_NoDeletionWhileChildRuns ==
    [][(pc \in {"decoding", "gst_interrupted", "transcoding",
                "ffmpeg_interrupted"} /\ DeletesAFile) => ~AnyChildRunning]_vars

C8_MissingInputReturnsOne ==
    (pc = "done" /\ input_file = {} /\ ~start_raw)
        => /\ result = Returned(1)
           /\ analyzer_runs = 0 /\ NoChildLaunched
           /\ temp_raw_info_file = start_info

C10_EmptySelectionLaunchesNothing ==
    (/\ req.channels_filter # <<>>
     /\ SelectedChannels(channels_layout, req.channels_filter) = <<>>)
        => sox.st = "none" /\ ffmpeg.st = "none"


\* ------------------------------------------------------------------------
\* Helpers called on their own
\* ------------------------------------------------------------------------
\* Everything but call: the orchestrator stays as constructed.
runVars == <<input_file, temp_raw_file, temp_raw_info_file, out_files,
             channels_key, exeOk, req, pc, audio_info, parser_used, gst, sox,
             ffmpeg, seconds_passed, output_files, sox_cmd, ffmpeg_cmd, result,
             analyzer_runs, info_source, interrupted, start_raw, start_info,
             prev_run>>

PendingCall(fn, arg) == [fn |-> fn, arg |-> arg, ret |-> <<>>, done |-> FALSE]

\* The arguments _build_ffmpeg_command is called with.
ChannelFilters ==
    {<<>>, <<"Ls", "Rs">>, <<"Rs", "Ls">>, <<"L", "L">>, <<"LFE">>, <<"X">>,
     <<"Rtr", "C", "X">>}

FfmpegCalls ==
    {PendingCall("build_ffmpeg_command", a) :
        a \in [layout : DOMAIN CHANNELS, bits : {24, 32}, no_numbers : BOOLEAN,
               duration : {PyNone, PyInt(0), PyFloat(1)},
               channels_filter : ChannelFilters]}

CallBuildFfmpegCommand ==
    /\ call.fn = "build_ffmpeg_command" /\ ~call.done
    /\ call' = [call EXCEPT
                  !.ret = BuildFfmpegCommand(CHANNELS[call.arg.layout].names,
                              call.arg.bits, call.arg.no_numbers,
                              call.arg.duration, call.arg.channels_filter),
                  !.done = TRUE]
    /\ UNCHANGED runVars

\* The positions (1-based) of the layout names the filter lets through.
WantedPositions(layout, channels_filter) ==
    {i \in 1..Len(layout) :
        channels_filter = <<>>
        \/ \E j \in 1..Len(channels_filter) : channels_filter[j] = layout[i]}

\* C11: the encoder command maps exactly one output per selected channel:
\* the selected channels are the layout names the filter holds (all of
\* them for the empty filter), in layout order and once each, and the
\* output of the channel at 1-based layout position NN is <NN in two
\* digits>_<name>, or <name> alone when numbering is off.  Filter [Ls, Rs]
\* on layout 9.1.6 gives the two outputs 05_Ls and 06_Rs and maps only
\* Ls and Rs.
C11_OneOutputPerSelectedChannel ==
    (call.fn = "build_ffmpeg_command" /\ call.done)
        => LET layout == CHANNELS[call.arg.layout].names
               want == WantedPositions(layout, call.arg.channels_filter)
               maps == call.ret.maps
               outs == call.ret.outputs
           IN /\ Len(maps) = Cardinality(want) /\ Len(outs) = Cardinality(want)
              /\ \A k \in 1..Len(maps) :
                    /\ maps[k][1] + 1 \in want
                    /\ maps[k][2] = layout[maps[k][1] + 1]
                    /\ k > 1 => maps[k - 1][1] < maps[k][1]
                    /\ outs[k] = IF call.arg.no_numbers THEN <<maps[k][2]>>
                                 ELSE <<<<(maps[k][1] + 1) \div 10,
                                          (maps[k][1] + 1) % 10>>, maps[k][2]>>
              /\ (call.arg.layout = "9.1.6"
                  /\ call.arg.channels_filter = <<"Ls", "Rs">>
                  /\ ~call.arg.no_numbers)
                    => /\ maps = <<<<4, "Ls">>, <<5, "Rs">>>>
                       /\ outs = <<<<<<0, 5>>, "Ls">>, <<<<0, 6>>, "Rs">>>>

\* C11 witness: the command built for filter [Ls, Rs] on layout 9.1.6.
C11_Witness ==
    /\ call.fn = "build_ffmpeg_command" /\ call.done
    /\ call.arg.layout = "9.1.6" /\ call.arg.channels_filter = <<"Ls", "Rs">>
    /\ ~call.arg.no_numbers
    /\ Len(call.ret.outputs) = 2

\* The requested delays and the record formats the delay property is read
\* with.
RequestedDelays ==
    {-300, -225, -224, -223, -33, -32, -1, 0, 1, 31, 32, 33, 224, 300}

RecordFormats == {PyNone, PyStr(TRUEHD), PyStr(AC3), PyStr(EAC3), PyStr(AAC)}

DelayCalls ==
    {PendingCall("delay", a) :
        a \in [delay : RequestedDelays, format : RecordFormats]}

\* The delay property read on a _Runner built with the requested delay and
\* holding a record of the format, and the effect _build_sox_command makes
\* of it.
CallDelay ==
    /\ call.fn = "delay" /\ ~call.done
    /\ LET r == [DefaultRequest EXCEPT !.delay = PyInt(call.arg.delay)]
           ai == [EmptyAudioInfo EXCEPT !["format"] = call.arg.format]
           d == DelayProp(r, ai)
       IN call' = [call EXCEPT
                     !.ret = [delay |-> d,
                              effect |-> BuildSoxCommand(r.bits, d,
                                             VolumeProp(r, ai)).effect],
                     !.done = TRUE]
    /\ UNCHANGED runVars

\* C12: the delay handed to the sample processor is the requested delay
\* minus 32 for a TRUEHD record and the requested delay plus 224 for an AC3
\* or E-AC3 record, whatever the sign of the request; the sample processor
\* pads by it when it is positive and trims by its magnitude when negative.
C12_EffectiveDelay ==
    (call.fn = "delay" /\ call.done)
        => LET want == IF call.arg.format = PyStr(TRUEHD)
                       THEN call.arg.delay - 32 ELSE call.arg.delay + 224
           IN /\ call.arg.format \in {PyStr(TRUEHD), PyStr(AC3), PyStr(EAC3)}
                    => call.ret.delay = want
              /\ call.ret.effect =
                    IF call.ret.delay > 0 THEN <<"pad", call.ret.delay>>
                    ELSE IF call.ret.delay < 0 THEN <<"trim", -call.ret.delay>>
                    ELSE <<>>

\* C12 witness: a negative request on a TRUEHD record and the trim it gives.
C12_Witness ==
    /\ call.fn = "delay" /\ call.done
    /\ call.arg.format = PyStr(TRUEHD) /\ call.arg.delay = -1
    /\ call.ret.delay = -33 /\ call.ret.effect = <<"trim", 33>>

\* The requested volumes (None is 'auto') and the dialnorm values of the
\* record the volume property is read with.
RequestedVolumes == {PyNone} \cup {PyInt(n) : n \in {-12, -1, 0, 1, 4, 31}}

RecordDialnorms == {PyNone} \cup {PyInt(n) : n \in {-31, -27, -1, 0}}

VolumeCalls ==
    {PendingCall("volume", a) :
        a \in [volume : RequestedVolumes, dialnorm : RecordDialnorms]}

\* The volume property read on a _Runner built with the requested volume
\* and holding a record with the dialnorm, and the gain _build_sox_command
\* makes of it.
CallVolume ==
    /\ call.fn = "volume" /\ ~call.done
    /\ LET r == [DefaultRequest EXCEPT !.volume = call.arg.volume]
           ai == [EmptyAudioInfo EXCEPT !["dialnorm"] = call.arg.dialnorm]
           v == VolumeProp(r, ai)
       IN call' = [call EXCEPT
                     !.ret = [volume |-> v,
                              gain |-> BuildSoxCommand(r.bits, DelayProp(r, ai),
                                                       v).gain],
                     !.done = TRUE]
    /\ UNCHANGED runVars

\* C13: the volume used for transcode is the requested volume whenever one
\* was given (0 included), else 31 + dialnorm when the record has a
\* dialnorm, else 0; the sample processor gets a gain of that many dB
\* unless it is 0.
C13_EffectiveVolume ==
    (call.fn = "volume" /\ call.done)
        => LET want == IF call.arg.volume # PyNone THEN call.arg.volume[2]
                       ELSE IF call.arg.dialnorm # PyNone
                            THEN 31 + call.arg.dialnorm[2] ELSE 0
           IN /\ IsNum(call.ret.volume) /\ call.ret.volume[2] = want
              /\ call.ret.gain = IF want = 0 THEN <<>> ELSE <<want>>

\* C13 witness: an explicit 0 on a record that has a dialnorm stays 0.
C13_Witness ==
    /\ call.fn = "volume" /\ call.done
    /\ call.arg.volume = PyInt(0) /\ call.arg.dialnorm = PyInt(-27)
    /\ call.ret.volume = PyInt(0) /\ call.ret.gain = <<>>

\* The requested durations (0 is the default of run: none requested) and
\* the durations the record may hold when the duration property is read.
RequestedDurations == {PyNone, PyInt(0), PyInt(1), PyInt(3)}

RecordDurations ==
    {PyNone, PyInt(0), PyInt(2), PyFloat(1), PyFloat(2), PyFloat(3)}

DurationCalls ==
    {PendingCall("duration", a) :
        a \in [duration : RequestedDurations, parsed : RecordDurations]}

\* The duration property read on a _Runner built with the requested
\* duration and holding a record with the parsed one, and the -t option
\* _build_ffmpeg_command makes of it.
CallDuration ==
    /\ call.fn = "duration" /\ ~call.done
    /\ LET r == [DefaultRequest EXCEPT !.duration = call.arg.duration]
           ai == [EmptyAudioInfo EXCEPT !["duration"] = call.arg.parsed]
           d == DurationProp(r, ai)
       IN call' = [call EXCEPT
                     !.ret = [duration |-> d,
                              t |-> BuildFfmpegCommand(channels_layout, r.bits,
                                        r.no_numbers, d, r.channels_filter).t],
                     !.done = TRUE]
    /\ UNCHANGED runVars

\* Two Python values that are both None or the same number.
SameNumber(a, b) ==
    \/ a = PyNone /\ b = PyNone
    \/ IsNum(a) /\ IsNum(b) /\ a[2] = b[2]

\* C14 as stated: the duration used for transcode is the requested one when
\* one is given and is shorter than the duration of the record, and the
\* duration of the record in every other case.  (Refuted: with a request
\* and a record that holds no duration, the request is used.)
C14_RequestedOnlyWhenShorter ==
    (call.fn = "duration" /\ call.done)
        => SameNumber(call.ret.duration,
                      IF /\ Truthy(call.arg.duration)
                         /\ Truthy(call.arg.parsed)
                         /\ call.arg.duration[2] < call.arg.parsed[2]
                      THEN call.arg.duration ELSE call.arg.parsed)

\* C14 amended: the duration used for transcode is the requested one when
\* one is given (not None, not 0) and the record holds no duration, a zero
\* duration or a longer one, and the duration of the record in every other
\* case; the encoder gets -t with it unless it is None or 0.
C14_EffectiveDuration ==
    (call.fn = "duration" /\ call.done)
        => /\ SameNumber(call.ret.duration,
                         IF /\ Truthy(call.arg.duration)
                            /\ \/ ~Truthy(call.arg.parsed)
                               \/ call.arg.duration[2] < call.arg.parsed[2]
                         THEN call.arg.duration ELSE call.arg.parsed)
           /\ call.ret.t = IF Truthy(call.ret.duration)
                           THEN <<call.ret.duration>> ELSE <<>>

\* C14 witness: a request of 1 s against a record of 2 s gives 1 s.
C14_Witness ==
    /\ call.fn = "duration" /\ call.done
    /\ call.arg.duration = PyInt(1) /\ call.arg.parsed = PyFloat(2)
    /\ call.ret.duration = PyFloat(1) /\ call.ret.t = <<PyFloat(1)>>

\* ------------------------------------------------------------------------
\* AudioInfo.parse called on its own
\* ------------------------------------------------------------------------
\* A file as parse and _detect_magic_bytes meet it: not there, there but
\* not readable (open raises OSError), or there with its bytes.
NoFile == <<"missing">>
UnreadableFile == <<"unreadable">>
FileOf(bytes) == <<"bytes", bytes>>

\* file.open("rb").read(32)
Read32(bytes) == SubSeq(bytes, 1, IF Len(bytes) < 32 THEN Len(bytes) ELSE 32)

\* _detect_magic_bytes(file): the except clause turns FileNotFoundError and
\* OSError into None.
DetectMagicBytesOfFile(file) ==
    IF file[1] = "bytes" THEN DetectMagicBytes(Read32(file[2])) ELSE PyNone

\* parse(input_file) with the analyzers in exe passing is_executable_exists
\* and out the output of the analyzer that gets started.  error is what
\* parse stores in self.error, invoked the analyzers started on the file in
\* order, parser_used the field of the object, result what the _by_ method
\* leaves: <<"ok", object>> or <<"raise", exception>>.
AudioInfoParse(file, exe, out) ==
    LET fmt == DetectMagicBytesOfFile(file)
        p == IF fmt = PyNone THEN PyNone ELSE SelectParser(fmt[2], exe)
        obj == [NewAudioInfo EXCEPT !.parser_used = ToStr(p)]
    IN IF file = NoFile
       THEN [error |-> "FileNotFoundError", invoked |-> <<>>,
             parser_used |-> PyNone, result |-> <<"ok", NewAudioInfo>>]
       ELSE IF fmt = PyNone \/ p = PyNone
       THEN [error |-> "RuntimeError", invoked |-> <<>>,
             parser_used |-> PyNone, result |-> <<"ok", NewAudioInfo>>]
       ELSE [error |-> "", invoked |-> <<p[2]>>, parser_used |-> ToStr(p),
             result |-> IF p[2] = MEDIAINFO THEN ByMediainfo(obj, out.mediainfo)
                        ELSE ByEac3to(obj, out.eac3to)]

\* One file for each format the classifier knows, one it does not know, one
\* that is not readable and one that is not there.
ParseFiles ==
    {NoFile, UnreadableFile, FileOf(<<0, 0, 0, 0>>),
     FileOf(<<11, 119, 0, 0>>), FileOf(<<248, 114, 111, 186>>),
     FileOf(<<127, 254, 128, 1>>), FileOf(<<255, 241, 0, 0>>),
     FileOf(RIFF \o <<0, 0, 0, 0>> \o WAVE), FileOf(w64_guid)}

GoodTrack ==
    [type |-> PyStr("Audio"), Format |-> PyStr("AC-3"),
     Duration |-> PyNumStr(2), BitRate |-> PyNumStr(640000),
     Channels |-> PyNumStr(6), SamplingRate |-> PyNumStr(48000),
     dialnorm |-> PyNumStr(-27)]

\* What the JSON analyzer may hand back: a non-zero exit, text that is not
\* JSON, a JSON list, no track, a full Audio track, an Audio track whose
\* BitRate is not a number, and an Audio track without SamplingRate.
MediainfoCallOutputs ==
    {[kind |-> "exit", tracks |-> <<>>],
     [kind |-> "notjson", tracks |-> <<>>],
     [kind |-> "jsonlist", tracks |-> <<>>],
     [kind |-> "json", tracks |-> <<>>],
     [kind |-> "json", tracks |-> <<GoodTrack>>],
     [kind |-> "json", tracks |-> <<[GoodTrack EXCEPT !.BitRate = PyStr("VBR")]>>],
     [kind |-> "json", tracks |-> <<[GoodTrack EXCEPT !.SamplingRate = Missing]>>]}

GoodMatch ==
    [kind |-> "match", format |-> PyStr("AC3"), channels |-> PyStr("5.1"),
     duration |-> <<"hms", 2>>, bitrate |-> PyNumStr(640),
     freq |-> <<"khz", 48>>, dialnorm |-> PyNumStr(-27)]

\* What the text analyzer may hand back: a non-zero exit, text the pattern
\* does not match, a full match, and a match without a frequency.
Eac3toCallOutputs ==
    {[GoodMatch EXCEPT !.kind = "error"], [GoodMatch EXCEPT !.kind = "nomatch"],
     GoodMatch, [GoodMatch EXCEPT !.freq = PyNone]}

ParseCalls ==
    {PendingCall("parse", a) :
        a \in [file : ParseFiles, exe : SUBSET Parsers,
               mediainfo : MediainfoCallOutputs, eac3to : Eac3toCallOutputs]}

CallParse ==
    /\ call.fn = "parse" /\ ~call.done
    /\ call' = [call EXCEPT
                  !.ret = AudioInfoParse(call.arg.file, call.arg.exe,
                              [mediainfo |-> call.arg.mediainfo,
                               eac3to |-> call.arg.eac3to]),
                  !.done = TRUE]
    /\ UNCHANGED runVars

\* The priority list of the format of the file of the pending call (empty
\* when the classifier gives no format).
CallFormatList ==
    LET fmt == DetectMagicBytesOfFile(call.arg.file)
    IN IF fmt = PyNone THEN <<>> ELSE ParserPriority(fmt[2])

\* C15: one parse starts at most one analyzer; the one started is the first
\* entry of the format's priority list that passes the executable check, and
\* parser_used names it; with no format, or no entry that passes (a format
\* without a list included), parse stores an error and starts no analyzer.
C15_FirstUsableAnalyzerOnly ==
    (call.fn = "parse" /\ call.done)
        => LET list == CallFormatList
               usable == {i \in 1..Len(list) : list[i] \in call.arg.exe}
           IN /\ Len(call.ret.invoked) <= 1
              /\ usable = {} => /\ call.ret.invoked = <<>>
                                /\ call.ret.error # ""
                                /\ call.ret.parser_used = PyNone
              /\ usable # {} =>
                    \E i \in usable :
                        /\ \A j \in usable : i <= j
                        /\ call.ret.invoked = <<list[i]>>
                        /\ call.ret.parser_used = PyStr(list[i])
                        /\ call.ret.error = ""

\* C15 witness: an AC3 file with both analyzers usable starts mediainfo, the
\* first of its list, and only it.
C15_Witness ==
    /\ call.fn = "parse" /\ call.done
    /\ call.arg.file = FileOf(<<11, 119, 0, 0>>)
    /\ call.arg.exe = {MEDIAINFO, EAC3TO}
    /\ call.ret.invoked = <<MEDIAINFO>>
    /\ call.ret.parser_used = PyStr(MEDIAINFO)

\* The analyzer started by the finished parse call failed: it left with a
\* non-zero exit, or its output is not JSON, is JSON of another shape or
\* with a BitRate that is no number, or is text the pattern does not match.
AnalyzerFailed ==
    /\ call.fn = "parse" /\ call.done
    /\ \/ /\ call.ret.invoked = <<MEDIAINFO>>
          /\ \/ call.arg.mediainfo.kind \in {"exit", "notjson", "jsonlist"}
             \/ /\ call.arg.mediainfo.tracks # <<>>
                /\ ToInt(call.arg.mediainfo.tracks[1].BitRate) = PyNone
       \/ /\ call.ret.invoked = <<EAC3TO>>
          /\ call.arg.eac3to.kind \in {"error", "nomatch"}

\* C16: a failing analyzer never aborts parse: it returns with an object
\* that carries no data from the analyzer and raises nothing.
C16_FailingAnalyzerLeavesNoData ==
    AnalyzerFailed
        => /\ call.ret.result[1] = "ok"
           /\ call.ret.result[2] =
                  [NewAudioInfo EXCEPT !.parser_used = call.ret.parser_used]

\* ------------------------------------------------------------------------
\* _detect_magic_bytes called on its own
\* ------------------------------------------------------------------------
Zeros(n) == [i \in 1..n |-> 0]

\* The starts of the files handed to the classifier: every magic, each one
\* cut short by a byte, moved by a byte or changed in a byte, and RIFF with
\* and without WAVE at offset 8.
HeaderCores ==
    {<<>>, <<11>>, <<11, 119>>, <<119, 11>>, <<0, 11, 119>>,
     <<248, 114, 111, 186>>, <<248, 114, 111>>, <<248, 114, 111, 187>>,
     <<127, 254, 128, 1>>, <<127, 254, 128>>, <<254, 127, 1, 128>>,
     <<255, 241>>, <<255, 249>>, <<255, 242>>, <<255>>,
     RIFF \o Zeros(4) \o WAVE, RIFF \o Zeros(4) \o SubSeq(WAVE, 1, 3),
     RIFF \o Zeros(4) \o <<65, 86, 73, 32>>, RIFF \o WAVE, RIFF,
     WAVE \o Zeros(4) \o RIFF,
     w64_guid, SubSeq(w64_guid, 1, 15), SubSeq(w64_guid, 1, 15) \o <<225>>,
     Zeros(32) \o <<11, 119>>, Zeros(24) \o RIFF \o Zeros(4) \o WAVE}

\* What follows the start of the file: nothing, one byte, or enough bytes to
\* pass the 32 that are read.
HeaderTails == {<<>>, <<0>>, Zeros(33), <<11, 119>> \o Zeros(31)}

DetectFiles ==
    {NoFile, UnreadableFile}
    \cup {FileOf(c \o t) : c \in HeaderCores, t \in HeaderTails}

DetectCalls == {PendingCall("detect", [file |-> f]) : f \in DetectFiles}

CallDetectMagicBytes ==
    /\ call.fn = "detect" /\ ~call.done
    /\ call' = [call EXCEPT !.ret = DetectMagicBytesOfFile(call.arg.file),
                            !.done = TRUE]
    /\ UNCHANGED runVars

\* The first n of the first 32 bytes of the file of the pending call (fewer
\* when the file is shorter, none when it cannot be read).
First(n) ==
    LET bytes == IF call.arg.file[1] = "bytes" THEN call.arg.file[2] ELSE <<>>
        m == IF Len(bytes) < 32 THEN Len(bytes) ELSE 32
    IN SubSeq(bytes, 1, IF n < m THEN n ELSE m)

\* C17: the classifier's answer is fixed by the first 32 bytes: 0B77 gives
\* AC3, F8726FBA gives TRUEHD, 7FFE8001 gives DTS, FFF1 and FFF9 give AAC,
\* RIFF at 0 with WAVE at 8 gives WAV, the 16-byte GUID gives W64, and
\* every other header, a too short one and a missing or unreadable file
\* give None; nothing is raised.
C17_ClassifyByMagic ==
    (call.fn = "detect" /\ call.done)
        => call.ret =
             CASE First(2) = <<11, 119>> -> PyStr(AC3)
               [] First(4) = <<248, 114, 111, 186>> -> PyStr(TRUEHD)
               [] First(4) = <<127, 254, 128, 1>> -> PyStr(DTS)
               [] First(2) \in {<<255, 241>>, <<255, 249>>} -> PyStr(AAC)
               [] First(4) = RIFF /\ Len(First(12)) = 12
                      /\ SubSeq(First(12), 9, 12) = WAVE -> PyStr(WAV)
               [] First(16) = w64_guid -> PyStr(W64)
               [] OTHER -> PyNone

\* C17 witness: a RIFF file that is not WAVE is classified as None.
C17_Witness ==
    /\ call.fn = "detect" /\ call.done
    /\ call.arg.file = FileOf(RIFF \o Zeros(4) \o <<65, 86, 73, 32>> \o Zeros(33))
    /\ call.ret = PyNone

\* ------------------------------------------------------------------------
\* to_frequency called on its own
\* ------------------------------------------------------------------------
\* Numbers, numeric texts, texts with a unit, and the values that stand for
\* "nothing": None, 0 and the empty text.
FrequencyInputs ==
    {PyNone, PyStr(""), PyStr("abc"),
     PyInt(0), PyInt(48), PyInt(44100), PyInt(48000), PyInt(96000),
     PyNumStr(0), PyNumStr(44100), PyNumStr(48000), PyNumStr(96000),
     <<"khz", 44>>, <<"khz", 48>>, <<"khz", 96>>, <<"khz", 1000>>,
     <<"dk", 441>>, <<"dk", 480>>, <<"dk", 220>>,
     <<"hz", 48>>, <<"hz", 44100>>, <<"hz", 48000>>, <<"hz", 96000>>}

FrequencyCalls == {PendingCall("to_frequency", [value |-> v]) : v \in FrequencyInputs}

CallToFrequency ==
    /\ call.fn = "to_frequency" /\ ~call.done
    /\ call' = [call EXCEPT !.ret = ToFrequency(call.arg.value), !.done = TRUE]
    /\ UNCHANGED runVars

\* C18: to_frequency gives 48000 for "48kHz", "48000", 48000 and "48 hz",
\* 44100 for "44.1k", and None for every other input, whose number is
\* neither 44100 nor 48000 (96000 for one); so what it hands to the freq
\* field is always None, 44100 or 48000.
C18_OnlyTwoSampleRates ==
    (call.fn = "to_frequency" /\ call.done)
        => LET v == call.arg.value IN
           /\ call.ret[1] = "ok"
           /\ call.ret[2] \in {PyNone, PyInt(44100), PyInt(48000)}
           /\ v \in {<<"khz", 48>>, PyNumStr(48000), PyInt(48000), <<"hz", 48>>}
                  => call.ret[2] = PyInt(48000)
           /\ v = <<"dk", 441>> => call.ret[2] = PyInt(44100)
           /\ v \in {PyInt(96000), PyNumStr(96000), <<"khz", 96>>, <<"hz", 96000>>,
                     PyInt(0), PyNumStr(0), PyInt(48)}
                  => call.ret[2] = PyNone

\* ------------------------------------------------------------------------
\* The sidecar written and read back
\* ------------------------------------------------------------------------
\* What prepare_audio_info makes of a loaded dict: every field through
\* _normalize_audio_field into a new record, or the exception of the field
\* that raises (only freq can).
NormalizedAudioInfo(ai) ==
    IF \E k \in DOMAIN ai : NormalizeAudioField(k, ai[k])[1] = "raise"
    THEN <<"raise", NormalizeAudioField("freq", ai["freq"])[2]>>
    ELSE <<"ok", UpdatedAudioInfo(EmptyAudioInfo, ai)>>

\* Records whose fields are each None or a normalized value.
NormalizedRecords ==
    [format : {PyNone, PyStr(AC3), PyStr(TRUEHD)},
     duration : {PyNone, PyFloat(2)},
     channels : {PyNone, PyStr("5.1")},
     bitrate : {PyNone, PyInt(640)},
     freq : {PyNone, PyInt(48000)},
     dialnorm : {PyNone, PyInt(-27)},
     parser_used : {PyNone, PyStr(MEDIAINFO)}]

RoundTripCalls ==
    {PendingCall("put", [record |-> rec]) : rec \in NormalizedRecords}

\* Every variable of a run but the sidecar.
noSidecarVars ==
    <<input_file, temp_raw_file, out_files, channels_key, exeOk, req, pc,
      audio_info, parser_used, gst, sox, ffmpeg, seconds_passed, output_files,
      sox_cmd, ffmpeg_cmd, result, analyzer_runs, info_source, interrupted,
      start_raw, start_info, prev_run>>

\* _put_raw_audio_info(record); the read is pending next.
CallPutRawAudioInfo ==
    /\ call.fn = "put" /\ ~call.done
    /\ temp_raw_info_file' = {PutParamsToFile(call.arg.record)}
    /\ call' = [call EXCEPT !.fn = "get"]
    /\ UNCHANGED noSidecarVars

\* _get_raw_audio_info(force=True) on the file just written, normalized as
\* prepare_audio_info normalizes it.
CallGetRawAudioInfo ==
    /\ call.fn = "get" /\ ~call.done
    /\ LET loaded == GetParamsFromFile(temp_raw_info_file)
       IN call' = [call EXCEPT
                     !.ret = IF loaded = {} THEN <<"ok", PyNone>>
                             ELSE NormalizedAudioInfo(CHOOSE d \in loaded : TRUE),
                     !.done = TRUE]
    /\ UNCHANGED runVars

\* C19: a record of normalized and absent fields written to the sidecar and
\* read back is the same record: present fields keep their values, absent
\* fields are absent again.
C19_SidecarRoundTrip ==
    (call.fn = "get" /\ call.done) => call.ret = <<"ok", call.arg.record>>

\* ------------------------------------------------------------------------
\* Properties of a run: the cached record
\* ------------------------------------------------------------------------
\* The decoder of this run has been started and has not ended.
DecoderLaunched == pc = "decoding" /\ gst.st = "running"

PastDecoderStart ==
    /\ PrepareEnded /\ ~start_raw
    /\ pc \in {"decoding", "gst_interrupted", "sox", "transcoding",
               "ffmpeg_interrupted", "done"}

\* C21 as stated: without a raw file a decoder is started for a record of
\* format TRUEHD, AC3 or EAC3, with the TrueHD command for TRUEHD and the
\* AC3/E-AC3 command for AC3 and EAC3.  (Refuted: a record of format EAC3
\* gets no decoder, run_gstreamer raises ValueError.)
C21_DecoderForEachFormat ==
    LET fmt == GetAudioInfo(audio_info, "format") IN
    (PastDecoderStart /\ fmt \in {PyStr(TRUEHD), PyStr(AC3), PyStr(EAC3)})
        => /\ gst.st # "none"
           /\ gst.cmd = IF fmt = PyStr(TRUEHD) THEN "thd" ELSE "ac3"

\* C22: while a decoder, sample processor or encoder started by the run is
\* running, the sidecar holds the text of the record in memory: the record
\* is written after prepare_audio_info has updated it and again after the
\* decoder's seconds have been stored as its duration, before the next
\* process is started.
C22_SidecarMatchesRecord ==
    AnyChildRunning => temp_raw_info_file = {PutParamsToFile(audio_info)}

\* C22 witness: the sample processor and the encoder run after a decoder of
\* the same run has ended with code 0 and its duration has been stored.
C22_Witness ==
    /\ gst.st = "exited" /\ gst.rc = 0
    /\ sox.st = "running" /\ ffmpeg.st = "running"
    /\ temp_raw_info_file = {PutParamsToFile(audio_info)}

\* ------------------------------------------------------------------------
\* The end of the read loop of run_sox_ffmpeg called on its own
\* ------------------------------------------------------------------------
\* Lines 280-282: <<"none">> when no further line is built, else the line
\* "time=<to_human_time(duration)>.000" is built and parsed, which raises
\* where to_human_time or update_progress_bar raises and draws the bar at
\* the duration otherwise.
FinalUpdate(r, ai, seconds) ==
    LET d == DurationProp(r, ai) IN
    IF Truthy(seconds) /\ seconds[2] < d[2]
    THEN IF ToHumanTimeRaises(d) \/ UpdateProgressBarRaises
         THEN <<"raise", "ValueError">> ELSE <<"update", d>>
    ELSE <<"none">>

\* The seconds of the encoder's last progress line (None: no line gave a
\* time, which is also what a record without duration leads to).
LastSeconds == {PyNone, PyFloat(1), PyFloat(2), PyFloat(3)}

FinalUpdateCalls ==
    {PendingCall("final_update", a) :
        a \in {b \in [duration : {PyInt(0), PyInt(1), PyInt(3)},
                      parsed : {PyNone, PyInt(0), PyFloat(2)},
                      seconds : LastSeconds, rc : ExitCodes] :
                 Truthy(b.seconds) =>
                     Truthy(DurationProp(
                         [DefaultRequest EXCEPT !.duration = b.duration],
                         [EmptyAudioInfo EXCEPT !["duration"] = b.parsed]))}}

\* The lines of run_sox_ffmpeg after the read loop, with the encoder's exit
\* code rc: the final update, then the code returned.
CallFinalUpdate ==
    /\ call.fn = "final_update" /\ ~call.done
    /\ LET r == [DefaultRequest EXCEPT !.duration = call.arg.duration]
           ai == [EmptyAudioInfo EXCEPT !["duration"] = call.arg.parsed]
           u == FinalUpdate(r, ai, call.arg.seconds)
       IN call' = [call EXCEPT
                     !.ret = [total |-> DurationProp(r, ai), update |-> u,
                              result |-> IF u[1] = "raise" THEN Raised(u[2])
                                         ELSE Returned(call.arg.rc)],
                     !.done = TRUE]
    /\ UNCHANGED runVars

\* C23: when the encoder has ended with code 0 and its last reported time
\* is below the expected total, or it reported no time at all, one more
\* progress update is drawn at the expected total, so the last update shown
\* is at 100%.  (Refuted: with no reported time nothing is drawn, and with
\* a time below the total building the update raises ValueError.)
C23_FinalUpdateAtTotal ==
    (/\ call.fn = "final_update" /\ call.done
     /\ call.arg.rc = 0 /\ Truthy(call.ret.total)
     /\ \/ ~Truthy(call.arg.seconds)
        \/ call.arg.seconds[2] < call.ret.total[2])
        => /\ call.ret.update = <<"update", call.ret.total>>
           /\ call.ret.result = Returned(0)

\* What _detect_magic_bytes gives for the input file of the run.
ClassifierTag ==
    IF input_file = {} THEN PyNone
    ELSE DetectMagicBytes(CHOOSE h \in input_file : TRUE)

\* C24 as stated: the format of the record is the tag the classifier gave
\* the file, and the decoder command follows that tag.  (Refuted: the
\* record holds what the analyzer or the sidecar names, e.g. EAC3 for a
\* file the classifier tags AC3.)
C24_FormatIsClassifierTag ==
    PrepareEnded
        => /\ GetAudioInfo(audio_info, "format") = ClassifierTag
           /\ gst.st # "none"
                 => gst.cmd = IF ClassifierTag = PyStr(TRUEHD) THEN "thd" ELSE "ac3"

\* The offset the decoder leaves for a record format.
OffsetOf(fmt) == IF fmt = PyStr(TRUEHD) THEN 32 ELSE -224

\* C24 amended: the format of the record is set during prepare_audio_info
\* (from the sidecar or from what the analyzer names; the classifier's tag
\* only picks the analyzer) and is not changed afterwards in the run; the
\* decoder command and the delay offset are chosen by that format when the
\* decoder and the sample processor are started.
C24_FormatFixedAfterPrepare ==
    [][LET fmt == GetAudioInfo(audio_info, "format")
           fmt1 == GetAudioInfo(audio_info', "format")
       IN /\ pc \notin {"prepare", "analyzing", "done", "idle"} => fmt1 = fmt
          /\ (gst.st = "none" /\ gst'.st = "running")
                => /\ fmt1 \in {PyStr(TRUEHD), PyStr(AC3)}
                   /\ gst'.cmd = IF fmt1 = PyStr(TRUEHD) THEN "thd" ELSE "ac3"
          /\ (sox.st = "none" /\ sox'.st = "running")
                => LET d == ToInt(req.delay)[2] - OffsetOf(fmt1)
                   IN sox_cmd'.effect = IF d > 0 THEN <<"pad", d>>
                                        ELSE IF d < 0 THEN <<"trim", -d>> ELSE <<>>
      ]_vars

\* C24 witness: the sample processor runs with the delay of a TRUEHD record
\* after a decoder started with the TrueHD command.
C24_Witness ==
    /\ GetAudioInfo(audio_info, "format") = PyStr(TRUEHD)
    /\ gst.st = "exited" /\ gst.cmd = "thd"
    /\ sox.st = "running" /\ sox_cmd.effect = <<"trim", 32>>

\* ------------------------------------------------------------------------
\* _by_mediainfo called on its own with several tracks
\* ------------------------------------------------------------------------
OtherTrack ==
    [type |-> PyStr("Audio"), Format |-> PyStr("E-AC-3"),
     Duration |-> PyNumStr(3), BitRate |-> PyNumStr(1536000),
     Channels |-> PyNumStr(8), SamplingRate |-> PyNumStr(44100),
     dialnorm |-> PyNumStr(-31)]

\* The tracks a JSON document may list: two Audio tracks that differ in
\* every field, an Audio track that names no format, and a Video track.
CallTracks ==
    {GoodTrack, OtherTrack, [OtherTrack EXCEPT !.Format = Missing],
     [GoodTrack EXCEPT !.type = PyStr("Video")]}

MaxTracks == 3

TrackLists == UNION {[1..n -> CallTracks] : n \in 1..MaxTracks}

TracksCalls == {PendingCall("by_mediainfo", [tracks |-> ts]) : ts \in TrackLists}

CallByMediainfo ==
    /\ call.fn = "by_mediainfo" /\ ~call.done
    /\ call' = [call EXCEPT
                  !.ret = ByMediainfo(
                              [NewAudioInfo EXCEPT !.parser_used = PyStr(MEDIAINFO)],
                              [kind |-> "json", tracks |-> call.arg.tracks]),
                  !.done = TRUE]
    /\ UNCHANGED runVars

\* The positions of the Audio tracks of the pending call.
AudioPositions ==
    {i \in 1..Len(call.arg.tracks) : call.arg.tracks[i].type = PyStr("Audio")}

\* C25: with several Audio tracks in the JSON document every field of the
\* object comes from the first Audio track; later Audio tracks change
\* nothing.  (Refuted: the loop has no break, the last Audio track wins.)
C25_FirstAudioTrackOnly ==
    (call.fn = "by_mediainfo" /\ call.done /\ AudioPositions # {})
        => LET first == CHOOSE i \in AudioPositions : \A j \in AudioPositions : i <= j
           IN call.ret = MediainfoTrack(
                             [NewAudioInfo EXCEPT !.parser_used = PyStr(MEDIAINFO)],
                             call.arg.tracks[first])

\* ------------------------------------------------------------------------
\* The format setter called on its own
\* ------------------------------------------------------------------------
\* The format setter: the name through to_str, then the table with the
\* format the object holds as the default.
SetFormat(before, value) == NormalizeAudioFormat(ToStr(value), before)

FormatsBefore ==
    {PyNone, PyStr(AC3), PyStr(EAC3), PyStr(TRUEHD), PyStr(WAV), PyStr(AAC)}

\* The names of the table, names that are not in it, a number and None.
FormatNames ==
    {PyStr(n) : n \in {"AC-3", "E-AC-3", "MLP FBA", "PCM", "AC3", "E-AC3",
                       "TrueHD (Atmos)", "WAV", "AAC", "EAC3", "THD",
                       "XYZ", "DTS", "ac-3", ""}}
    \cup {PyNone, PyInt(3)}

SetFormatCalls ==
    {PendingCall("set_format", a) :
        a \in [before : FormatsBefore, value : FormatNames]}

CallSetFormat ==
    /\ call.fn = "set_format" /\ ~call.done
    /\ call' = [call EXCEPT !.ret = SetFormat(call.arg.before, call.arg.value),
                            !.done = TRUE]
    /\ UNCHANGED runVars

\* The canonical tag of a name of the table, None for any other value.
CanonicalTag(value) ==
    CASE value \in {PyStr("AC-3"), PyStr("AC3")} -> PyStr(AC3)
      [] value \in {PyStr("E-AC-3"), PyStr("E-AC3"), PyStr("EAC3")} -> PyStr(EAC3)
      [] value \in {PyStr("MLP FBA"), PyStr("TrueHD (Atmos)"), PyStr("THD")}
            -> PyStr(TRUEHD)
      [] value \in {PyStr("PCM"), PyStr("WAV")} -> PyStr(WAV)
      [] value = PyStr("AAC") -> PyStr(AAC)
      [] OTHER -> PyNone

\* C26 as stated: a name of the table gives its canonical tag, and any
\* other name leaves the format None whatever it was before.  (Refuted: the
\* format the object held before is kept.)
C26_UnknownNameGivesNone ==
    (call.fn = "set_format" /\ call.done)
        => call.ret = CanonicalTag(call.arg.value)

\* C26 amended: a name of the table gives its canonical tag, and any other
\* name leaves the format as it was before the assignment (None on a new
\* object).
C26_UnknownNameKeepsFormat ==
    (call.fn = "set_format" /\ call.done)
        => call.ret = IF CanonicalTag(call.arg.value) # PyNone
                      THEN CanonicalTag(call.arg.value) ELSE call.arg.before

\* C26 witness: "XYZ" assigned to an object of format AC3 leaves AC3.
C26_Witness ==
    /\ call.fn = "set_format" /\ call.done
    /\ call.arg.before = PyStr(AC3) /\ call.arg.value = PyStr("XYZ")
    /\ call.ret = PyStr(AC3)

\* ------------------------------------------------------------------------
\* prepare_audio_info on a sidecar, called on its own
\* ------------------------------------------------------------------------
MetadataFields ==
    {"format", "duration", "channels", "bitrate", "freq", "dialnorm", "parser_used"}

\* The text of sidecars written for records with a sample rate.
WrittenSidecars ==
    {PutParamsToFile(rec) : rec \in {r \in NormalizedRecords : r.freq # PyNone}}

\* A sidecar with one more line, "<key>=<text>".
WithLine(content, key, text) ==
    [k \in DOMAIN content \cup {key} |-> IF k = key THEN text ELSE content[k]]

\* The sidecars handed to the load: none, the written ones, and the written
\* ones with a line "note=abc" or "tracks=2" that names no metadata field.
SidecarFiles ==
    {{}} \cup {{c} : c \in WrittenSidecars}
    \cup {{WithLine(c, "note", PyStr("abc"))} : c \in WrittenSidecars}
    \cup {{WithLine(c, "tracks", PyNumStr(2))} : c \in WrittenSidecars}

SidecarCalls ==
    {PendingCall("prepare_cached", [file |-> f]) : f \in SidecarFiles}

\* prepare_audio_info with the sidecar of the call: the load, and when it
\* gives data the update of a new record and the rewrite of the sidecar.
CallPrepareCached ==
    /\ call.fn = "prepare_cached" /\ ~call.done
    /\ LET loaded == GetParamsFromFile(call.arg.file)
           norm == NormalizedAudioInfo(CHOOSE d \in loaded : TRUE)
       IN call' = [call EXCEPT
                     !.ret = IF loaded = {}
                             THEN [loaded |-> PyNone, record |-> <<"ok", PyNone>>,
                                   written |-> call.arg.file]
                             ELSE [loaded |-> PyStr("dict"), record |-> norm,
                                   written |-> IF norm[1] = "ok"
                                               THEN {PutParamsToFile(norm[2])}
                                               ELSE call.arg.file],
                     !.done = TRUE]
    /\ UNCHANGED runVars

\* C27: a missing sidecar loads as None without an error, and a line of the
\* file whose key is no metadata field is ignored: the key is neither in
\* the record in memory nor in the sidecar written afterwards.  (Refuted:
\* every key of the file is put into the record and written back.)
C27_UnknownKeysIgnored ==
    (call.fn = "prepare_cached" /\ call.done)
        => /\ call.arg.file = {} => call.ret.loaded = PyNone
           /\ call.arg.file # {}
                 => /\ call.ret.record[1] = "ok"
                    /\ DOMAIN call.ret.record[2] \subseteq MetadataFields
                    /\ \A w \in call.ret.written : DOMAIN w \subseteq MetadataFields

\* ------------------------------------------------------------------------
\* The dialnorm warning of prepare_audio_info called on its own
\* ------------------------------------------------------------------------
\* Lines 458-466: "" when nothing is printed, else which warning.  The test
\* reads the volume property on the record as it is before the update.
DialnormWarning(r, record, ai) ==
    IF VolumeProp(r, record) = PyNone
    THEN IF GetAudioInfo(ai, "dialnorm") = PyNone
         THEN IF /\ GetAudioInfo(ai, "format") = PyStr(TRUEHD)
                 /\ GetAudioInfo(ai, "parser_used") = PyNone
              THEN "truehd" ELSE "failed"
         ELSE ""
    ELSE ""

WarningCalls ==
    {PendingCall("warning", a) :
        a \in [volume : RequestedVolumes,
               dialnorm : {PyNone, PyInt(-27), PyInt(0)},
               format : {PyNone, PyStr(AC3), PyStr(TRUEHD)},
               parser_used : {PyNone, PyStr(EAC3TO)}]}

\* prepare_audio_info with the requested volume and the record ai of the
\* analyzer: the warning, and the gain _build_sox_command gets afterwards.
CallDialnormWarning ==
    /\ call.fn = "warning" /\ ~call.done
    /\ LET r == [DefaultRequest EXCEPT !.volume = call.arg.volume]
           ai == [AsDict(NewAudioInfo) EXCEPT
                     !["dialnorm"] = call.arg.dialnorm,
                     !["format"] = call.arg.format,
                     !["parser_used"] = call.arg.parser_used,
                     !["freq"] = PyInt(48000)]
           rec == UpdatedAudioInfo(EmptyAudioInfo, ai)
       IN call' = [call EXCEPT
                     !.ret = [warning |-> DialnormWarning(r, EmptyAudioInfo, ai),
                              gain |-> BuildSoxCommand(r.bits, DelayProp(r, rec),
                                           VolumeProp(r, rec)).gain],
                     !.done = TRUE]
    /\ UNCHANGED runVars

\* C28: with the volume 'auto' (None) and a record without dialnorm,
\* prepare_audio_info prints a warning and the gain applied is 0 (no gain
\* effect).  (Refuted: the warning is never printed.)
C28_WarnsWithoutDialnorm ==
    (/\ call.fn = "warning" /\ call.done
     /\ call.arg.volume = PyNone /\ call.arg.dialnorm = PyNone)
        => call.ret.warning # "" /\ call.ret.gain = <<>>

\* ------------------------------------------------------------------------
\* The two command builders called on the same request
\* ------------------------------------------------------------------------
\* The --bits choices of the command line.
BitDepths == {16, 24, 32}

PipeCalls ==
    {PendingCall("pipe", a) :
        a \in [bits : BitDepths, no_numbers : BOOLEAN, delay : RequestedDelays]}

\* _build_sox_command and _build_ffmpeg_command as run_sox_ffmpeg calls
\* them, on a record of format AC3.
CallBuildPipe ==
    /\ call.fn = "pipe" /\ ~call.done
    /\ LET r == [DefaultRequest EXCEPT !.bits = call.arg.bits,
                                       !.no_numbers = call.arg.no_numbers,
                                       !.delay = PyInt(call.arg.delay)]
           ai == [EmptyAudioInfo EXCEPT !["format"] = PyStr(AC3)]
       IN call' = [call EXCEPT
                     !.ret = [sox |-> BuildSoxCommand(r.bits, DelayProp(r, ai),
                                          VolumeProp(r, ai)),
                              ffmpeg |-> BuildFfmpegCommand(channels_layout, r.bits,
                                             r.no_numbers, DurationProp(r, ai),
                                             r.channels_filter)],
                     !.done = TRUE]
    /\ UNCHANGED runVars

\* C29: for 16, 24 and 32 bits the sample processor writes to the pipe the
\* encoding the encoder reads from it: both 24-bit signed integer or both
\* 32-bit float.  (Refuted for 16 bits: s24 is written, f32le is read.)
C29_PipeEncodingsAgree ==
    (call.fn = "pipe" /\ call.done)
        => \/ /\ call.ret.sox.out_type = "s24"
              /\ call.ret.sox.out_enc = "signed-integer"
              /\ call.ret.ffmpeg.in_fmt = "s24le"
           \/ /\ call.ret.sox.out_type = "f32"
              /\ call.ret.sox.out_enc = "floating-point"
              /\ call.ret.ffmpeg.in_fmt = "f32le"

\* ------------------------------------------------------------------------
\* A run after a failed or interrupted transcode
\* ------------------------------------------------------------------------
\* The transcode stage ends without success: the encoder's code is not 0,
\* an exception leaves run_sox_ffmpeg, or a KeyboardInterrupt was handled.
TranscodeFails ==
    /\ pc \in {"transcoding", "ffmpeg_interrupted"}
    /\ pc' = "done"
    /\ result' # Returned(0)

\* C30: a run that fails or is interrupted in the transcode stage leaves
\* the raw file and its sidecar in place whatever keep_raw is, and a run
\* that finds the raw file skips the decoder and goes on to the transcode
\* stage.  (Refuted in its second half: the resume branch of run_gstreamer
\* raises ValueError before the transcode stage is entered.)
C30_FailedTranscodeResumes ==
    [][/\ TranscodeFails =>
            /\ temp_raw_file' /\ temp_raw_info_file' # {}
            /\ UNCHANGED <<temp_raw_file, temp_raw_info_file>>
       /\ (pc = "gst" /\ temp_raw_file /\ prev_run = "transcode") =>
            /\ gst' = NoProc
            /\ pc' = "sox"]_vars

\* The specification of the helper calls: one pending call, then its result.
CallInit ==
    /\ RunInit
    /\ \/ call \in FfmpegCalls
       \/ call \in DelayCalls
       \/ call \in VolumeCalls
       \/ call \in DurationCalls
       \/ call \in ParseCalls
       \/ call \in DetectCalls
       \/ call \in FrequencyCalls
       \/ call \in RoundTripCalls
       \/ call \in FinalUpdateCalls
       \/ call \in TracksCalls
       \/ call \in SetFormatCalls
       \/ call \in SidecarCalls
       \/ call \in WarningCalls
       \/ call \in PipeCalls

CallNext ==
    \/ CallBuildFfmpegCommand
    \/ CallDelay
    \/ CallVolume
    \/ CallDuration
    \/ CallParse
    \/ CallDetectMagicBytes
    \/ CallToFrequency
    \/ CallPutRawAudioInfo
    \/ CallGetRawAudioInfo
    \/ CallFinalUpdate
    \/ CallByMediainfo
    \/ CallSetFormat
    \/ CallPrepareCached
    \/ CallDialnormWarning
    \/ CallBuildPipe

CallSpec == CallInit /\ [][CallNext]_vars

=============================================================================
